---- MODULE Spec2Model ----
(***************************************************************************)
(* A model of the PyMOL agent: the interface layer of pymol_interface.py   *)
(* (the singleton session, get_session_state, execute_command and its      *)
(* stdout capture) and the conversation loop run_agent of agent.py.        *)
(*                                                                         *)
(* Text is modelled as a sequence of tokens: one-character strings, and    *)
(* the two delimiters "<pymol>" and "</pymol>" as one token each.          *)
(*                                                                         *)
(* Three specifications share the interface layer:                         *)
(*   Spec      run_agent, the single control thread of the program;        *)
(*   SpecSeq   any sequence of interface calls, one at a time;             *)
(*   SpecConc  interface calls made by two threads that may overlap.       *)
(* Two specifications apply a function to every input of a bounded set:    *)
(*   SpecExtract  extract_commands on every text of up to MaxLen tokens;   *)
(*   SpecState    get_session_state on every session of up to MaxNames     *)
(*                objects and MaxNames selections.                         *)
(***************************************************************************)
EXTENDS Integers, Sequences, FiniteSets, TLC

VARIABLES
    \* ---- pymol_interface.py
    _pymol,         \* the module global: None or the session instance
    inst,           \* every instance created so far: [started, stops]
    content,        \* what the engine of the current instance holds
    sys_stdout,     \* the global output channel: Console or a StringIO
    bufs,           \* the text each StringIO holds
    frame,          \* per thread: the execute_command call it is in
    report,         \* the value the last get_session_state call returned
    used,           \* the instance the last interface call worked on
    ncalls,         \* execute_command calls made by callers other than run_agent
    \* ---- agent.py, run_agent
    pc,             \* where the control thread is
    conversation_history,
    mode,
    pending_outputs,
    commands,       \* extract_commands(reply), the list the for loop walks
    idx,            \* the position of the for loop in commands
    \* ---- history variables (not program state)
    nbuilt,         \* how many user messages have been built
    ncmds,          \* how many commands the replies so far carried
    hist_before,    \* conversation_history when the current turn began
    produced,       \* every descriptor ever appended to pending_outputs
    event,          \* what the control thread did last
    last_input,     \* the last mode keyword line input() returned
    trace,          \* the commands of the current reply attempted so far
    close_calls,    \* how often run_agent has called close_session
    \* ---- agent.py, extract_commands called on its own
    extract_text,   \* the argument of the call
    extracted,      \* the list the call returned
    extract_pc      \* "idle" before the call, "returned" after it

ifaceVars == <<_pymol, inst, content, sys_stdout, bufs, frame, report, used, ncalls>>
agentVars == <<pc, conversation_history, mode, pending_outputs, commands, idx,
               nbuilt, ncmds, hist_before, produced, event, last_input, trace,
               close_calls>>
extractVars == <<extract_text, extracted, extract_pc>>
vars == <<ifaceVars, agentVars, extractVars>>

----------------------------------------------------------------------------
(* Bounds of the model. *)

\* Conversational turns (user messages built) a run of the model goes through.
MaxTurns == 3
\* Commands the replies of a run of the model carry in all.
MaxCmds == 3
\* Session instances a run of the model creates.
MaxInst == 2
\* Direct execute_command calls a run of the model makes.
MaxCalls == 3
\* Tokens a StringIO of the model holds.
MaxText == 6
\* Tokens of a text extract_commands is called on by itself.
MaxLen == 6
\* Objects, and selections, of a session get_session_state is called on.
MaxNames == 2

----------------------------------------------------------------------------
(* Text. *)

None == 0
Console == 0
Threads == {1, 2}
Main == 1
BufIds == 1 .. (2 * Cardinality(Threads) + 1)

Whitespace == {" ", "\n"}

\* str.strip(): the text from its first to its last token that is not
\* whitespace.
Strip(s) ==
    LET keep == {i \in DOMAIN s : s[i] \notin Whitespace} IN
    IF keep = {} THEN <<>>
    ELSE SubSeq(s, CHOOSE i \in keep : \A j \in keep : i <= j,
                   CHOOSE i \in keep : \A j \in keep : j <= i)

LowerChar(c) ==
    CASE c = "B" -> "b"
      [] c = "D" -> "d"
      [] c = "E" -> "e"
      [] c = "G" -> "g"
      [] c = "I" -> "i"
      [] c = "P" -> "p"
      [] c = "Q" -> "q"
      [] c = "R" -> "r"
      [] c = "T" -> "t"
      [] c = "U" -> "u"
      [] c = "X" -> "x"
      [] c = "Y" -> "y"
      [] OTHER -> c

\* str.lower()
Lower(s) == [i \in DOMAIN s |-> LowerChar(s[i])]

----------------------------------------------------------------------------
(* The external engine, pymol2.PyMOL: only its interface is modelled.      *)

NoObjects == [objects |-> <<>>, selections |-> <<>>]
ObjX == [name |-> "X", n_atoms |-> 5, chains |-> <<"A", "B">>]
SelS == [name |-> "s", n_atoms |-> 2]

\* What cmd.do(c) leaves in the engine: "a" loads an object, "b" selects in
\* it, "c" deletes everything; any other command changes nothing.
EngineDo(c, cmd) ==
    CASE cmd = <<"a">> -> [c EXCEPT !.objects = IF c.objects = <<>> THEN <<ObjX>> ELSE @]
      [] cmd = <<"b">> -> [c EXCEPT !.selections =
                              IF c.objects /= <<>> /\ c.selections = <<>> THEN <<SelS>> ELSE @]
      [] cmd = <<"c">> -> NoObjects
      [] OTHER -> c

\* The text a command prints: "c" prints nothing, any other command a line
\* that names it.
Emits(cmd) == IF cmd = <<"c">> THEN <<>> ELSE <<" ">> \o cmd \o <<"\n">>
NoExc == "none"
CmdError == "E"
StartError == "S"

\* cmd.do(cmd): it prints, changes the engine and returns, or it raises.
DoOutcomes(c, cmd) ==
    { [content |-> EngineDo(c, cmd), emit |-> Emits(cmd), exc |-> NoExc],
      [content |-> c, emit |-> <<>>, exc |-> CmdError] }

----------------------------------------------------------------------------
(* pymol_interface.py: the singleton session. *)

Live(i) == i \in DOMAIN inst /\ inst[i].started /\ inst[i].stops = 0
LiveSet == {i \in DOMAIN inst : Live(i)}

\* Mutant of get_session_outcomes: no "if _pymol is None", every call starts
\* a new instance.
get_session_always_new ==
    LET id == Len(inst) + 1 IN
    IF id > MaxInst
    THEN {[handle |-> _pymol, inst |-> inst, content |-> content, exc |-> NoExc]}
    ELSE { [handle |-> id,
            inst |-> Append(inst, [started |-> TRUE, stops |-> 0]),
            content |-> NoObjects, exc |-> NoExc] }

\* get_session(): the outcomes [handle, inst, content, exc] of one call.
\* pymol2.PyMOL() is assigned to the global before start() runs, so a start()
\* that raises leaves the instance in the global.
get_session_outcomes ==
    IF _pymol /= None
    THEN {[handle |-> _pymol, inst |-> inst, content |-> content, exc |-> NoExc]}
    ELSE LET id == Len(inst) + 1 IN
         { [handle |-> id,
            inst |-> Append(inst, [started |-> TRUE, stops |-> 0]),
            content |-> NoObjects, exc |-> NoExc],
           [handle |-> id,
            inst |-> Append(inst, [started |-> FALSE, stops |-> 0]),
            content |-> NoObjects, exc |-> StartError] }

\* A call of get_session() is within the bound on instances.
CanGetSession == _pymol /= None \/ Len(inst) < MaxInst

\* close_session()
close_session ==
    IF _pymol /= None
    THEN /\ inst' = [inst EXCEPT ![_pymol].stops = @ + 1]
         /\ _pymol' = None
         /\ content' = NoObjects
    ELSE UNCHANGED <<inst, _pymol, content>>

----------------------------------------------------------------------------
(* pymol_interface.py: get_session_state. *)

RECURSIVE Join(_, _)
\* sep.join(parts), parts a sequence of texts
Join(sep, parts) ==
    IF parts = <<>> THEN <<>>
    ELSE IF Len(parts) = 1 THEN parts[1]
    ELSE parts[1] \o sep \o Join(sep, Tail(parts))

ObjectLine(o) ==
    [kind |-> "object", name |-> o.name, n_atoms |-> o.n_atoms,
     chains |-> IF Join(<<",", " ">>, [i \in DOMAIN o.chains |-> <<o.chains[i]>>]) = <<>>
                THEN <<"none">>
                ELSE Join(<<",", " ">>, [i \in DOMAIN o.chains |-> <<o.chains[i]>>])]

SelectionLine(s) == [kind |-> "selection", name |-> s.name, n_atoms |-> s.n_atoms]

\* Mutant of StateLines: the selections header is not under "if selections".
StateLinesHeaderAlways(c) ==
    (IF c.objects /= <<>>
     THEN <<[kind |-> "Loaded objects:"]>>
          \o [i \in DOMAIN c.objects |-> ObjectLine(c.objects[i])]
     ELSE <<[kind |-> "No objects loaded."]>>)
    \o <<[kind |-> "Active selections:"]>>
    \o [i \in DOMAIN c.selections |-> SelectionLine(c.selections[i])]

\* The lines of the report for engine contents c.
StateLines(c) ==
    (IF c.objects /= <<>>
     THEN <<[kind |-> "Loaded objects:"]>>
          \o [i \in DOMAIN c.objects |-> ObjectLine(c.objects[i])]
     ELSE <<[kind |-> "No objects loaded."]>>)
    \o
    (IF c.selections /= <<>>
     THEN <<[kind |-> "Active selections:"]>>
          \o [i \in DOMAIN c.selections |-> SelectionLine(c.selections[i])]
     ELSE <<>>)

\* An object without chains, and a second selection.
ObjY == [name |-> "Y", n_atoms |-> 0, chains |-> <<>>]
SelT == [name |-> "t", n_atoms |-> 0]

\* What a session may hold when get_session_state is called: the objects and
\* the selections in the engine's order of enumeration.
Contents ==
    { [objects |-> os, selections |-> ss] :
        os \in UNION {[1 .. n -> {ObjX, ObjY}] : n \in 0 .. MaxNames},
        ss \in UNION {[1 .. n -> {SelS, SelT}] : n \in 0 .. MaxNames} }

----------------------------------------------------------------------------
(* pymol_interface.py: execute_command, one action per statement. *)

IdleFrame ==
    [pc |-> "idle", cmd |-> <<>>, old_stdout |-> Console, buf |-> Console,
     emitted |-> <<>>, ret |-> <<>>, exc |-> NoExc]

Active == {t \in Threads : frame[t].pc /= "idle"}

\* The StringIO objects something still refers to, given the channel and frames.
Referenced(out, fr) ==
    ({out} \cup {fr[t].old_stdout : t \in Threads} \cup {fr[t].buf : t \in Threads})
    \ {Console}

\* io.StringIO(): an object nothing refers to yet.
FreshBuf ==
    CHOOSE b \in BufIds :
        /\ b \notin Referenced(sys_stdout, frame)
        /\ \A c \in BufIds : c \notin Referenced(sys_stdout, frame) => b <= c

\* Objects nothing refers to any more are dropped.
Collect(bs, out, fr) ==
    [b \in BufIds |-> IF b \in Referenced(out, fr) THEN bs[b] ELSE <<>>]

\* sys.stdout.write(text) on channel out
Write(bs, out, text) ==
    IF out = Console THEN bs ELSE [bs EXCEPT ![out] = @ \o text]

\* The write is within the bound on a StringIO's text.
CanWrite(bs, out, text) ==
    IF out = Console THEN TRUE ELSE Len(bs[out]) + Len(text) <= MaxText

\* Mutant of Restored: no finally clause, a call that raises leaves its
\* StringIO installed.
RestoredUnlessRaised(f) == IF f.exc /= NoExc THEN f.buf ELSE f.old_stdout

\* The channel the finally clause installs.
Restored(f) == f.old_stdout

\* The value execute_command returns.
Captured(bs, f) == Strip(bs[f.buf])

\* The call begins: execute_command(c) on thread t.
Enter(t, c) ==
    frame' = [frame EXCEPT ![t] = [IdleFrame EXCEPT !.pc = "l94", !.cmd = c]]

\* Mutant of NotCmdString: the test is made before the argument is stripped.
NotCmdStringUnstripped(c) == c = <<>>

\* cmd_string = cmd_string.strip(); not cmd_string
NotCmdString(c) == Strip(c) = <<>>

\* cmd_string = cmd_string.strip(); if not cmd_string: return ""
Exec94(t) ==
    /\ frame[t].pc = "l94"
    /\ frame' = [frame EXCEPT ![t] =
                    IF NotCmdString(frame[t].cmd)
                    THEN [frame[t] EXCEPT !.pc = "returned", !.ret = <<>>]
                    ELSE [frame[t] EXCEPT !.pc = "l98", !.cmd = Strip(frame[t].cmd)]]
    /\ UNCHANGED <<_pymol, inst, content, sys_stdout, bufs, report, used, ncalls>>

\* old_stdout = sys.stdout
Exec98(t) ==
    /\ frame[t].pc = "l98"
    /\ frame' = [frame EXCEPT ![t].pc = "l99", ![t].old_stdout = sys_stdout]
    /\ UNCHANGED <<_pymol, inst, content, sys_stdout, bufs, report, used, ncalls>>

\* sys.stdout = buf = io.StringIO()
Exec99(t) ==
    /\ frame[t].pc = "l99"
    /\ frame' = [frame EXCEPT ![t].pc = "l101", ![t].buf = FreshBuf]
    /\ sys_stdout' = FreshBuf
    /\ bufs' = Collect([bufs EXCEPT ![FreshBuf] = <<>>], sys_stdout', frame')
    /\ UNCHANGED <<_pymol, inst, content, report, used, ncalls>>

\* get_session().cmd.do(cmd_string): what the command prints goes to the
\* channel installed at that moment.
Exec101(t) ==
    /\ frame[t].pc = "l101"
    /\ CanGetSession
    /\ \E g \in get_session_outcomes :
        /\ _pymol' = g.handle
        /\ inst' = g.inst
        /\ used' = g.handle
        /\ IF g.exc /= NoExc
           THEN /\ frame' = [frame EXCEPT ![t].pc = "l103", ![t].exc = g.exc]
                /\ content' = g.content
                /\ bufs' = bufs
           ELSE \E d \in DoOutcomes(g.content, frame[t].cmd) :
                /\ CanWrite(bufs, sys_stdout, d.emit)
                /\ frame' = [frame EXCEPT ![t].pc = "l103", ![t].exc = d.exc,
                                          ![t].emitted = d.emit]
                /\ content' = d.content
                /\ bufs' = Write(bufs, sys_stdout, d.emit)
    /\ UNCHANGED <<sys_stdout, report, ncalls>>

\* finally: sys.stdout = old_stdout; a pending exception goes on to the caller
Exec103(t) ==
    /\ frame[t].pc = "l103"
    /\ sys_stdout' = Restored(frame[t])
    /\ frame' = [frame EXCEPT ![t].pc = IF frame[t].exc /= NoExc THEN "raised" ELSE "l105"]
    /\ bufs' = Collect(bufs, sys_stdout', frame')
    /\ UNCHANGED <<_pymol, inst, content, report, used, ncalls>>

\* return buf.getvalue().strip()
Exec105(t) ==
    /\ frame[t].pc = "l105"
    /\ frame' = [frame EXCEPT ![t].pc = "returned", ![t].ret = Captured(bufs, frame[t])]
    /\ UNCHANGED <<_pymol, inst, content, sys_stdout, bufs, report, used, ncalls>>

\* The frame is gone once the caller has the result.
Leave(t) ==
    /\ frame' = [frame EXCEPT ![t] = IdleFrame]
    /\ bufs' = Collect(bufs, sys_stdout, frame')

ExecStep(t) ==
    /\ \/ Exec94(t)
       \/ Exec98(t)
       \/ Exec99(t)
       \/ Exec101(t)
       \/ Exec103(t)
       \/ Exec105(t)
    /\ UNCHANGED agentVars
    /\ UNCHANGED extractVars

----------------------------------------------------------------------------
(* Interface calls made directly: a caller other than run_agent. k is the  *)
(* number of calls that may be in progress at once.                        *)

CmdStrings == {<<>>, <<" ", "\n">>, <<"a">>, <<" ", "b", "\n">>, <<"c">>}

CallGetSession(k) ==
    /\ Cardinality(Active) < k
    /\ CanGetSession
    /\ \E g \in get_session_outcomes :
        /\ _pymol' = g.handle
        /\ inst' = g.inst
        /\ content' = g.content
        /\ used' = g.handle
    /\ UNCHANGED <<sys_stdout, bufs, frame, report, ncalls>>
    /\ UNCHANGED agentVars
    /\ UNCHANGED extractVars

CallGetSessionState(k) ==
    /\ Cardinality(Active) < k
    /\ CanGetSession
    /\ \E g \in get_session_outcomes :
        /\ _pymol' = g.handle
        /\ inst' = g.inst
        /\ content' = g.content
        /\ used' = g.handle
        /\ report' = IF g.exc /= NoExc THEN report ELSE StateLines(g.content)
    /\ UNCHANGED <<sys_stdout, bufs, frame, ncalls>>
    /\ UNCHANGED agentVars
    /\ UNCHANGED extractVars

CallCloseSession(k) ==
    /\ Cardinality(Active) < k
    /\ close_session
    /\ UNCHANGED <<sys_stdout, bufs, frame, report, used, ncalls>>
    /\ UNCHANGED agentVars
    /\ UNCHANGED extractVars

CallExecute(t, k) ==
    /\ Cardinality(Active) < k
    /\ frame[t].pc = "idle"
    /\ ncalls < MaxCalls
    /\ ncalls' = ncalls + 1
    /\ \E c \in CmdStrings : Enter(t, c)
    /\ UNCHANGED <<_pymol, inst, content, sys_stdout, bufs, report, used>>
    /\ UNCHANGED agentVars
    /\ UNCHANGED extractVars

TakeResult(t) ==
    /\ frame[t].pc \in {"returned", "raised"}
    /\ Leave(t)
    /\ UNCHANGED <<_pymol, inst, content, sys_stdout, report, used, ncalls>>
    /\ UNCHANGED agentVars
    /\ UNCHANGED extractVars

----------------------------------------------------------------------------
(* agent.py: extract_commands. *)

Open == "<pymol>"
Close == "</pymol>"

\* Mutant of FindAll: greedy matching, an open delimiter pairs with the last
\* close delimiter of the text.
FindAllGreedy(t, pos) ==
    LET opens == {i \in pos .. Len(t) : t[i] = Open} IN
    IF opens = {} THEN <<>>
    ELSE LET i == CHOOSE x \in opens : \A y \in opens : x <= y
             closes == {j \in (i + 1) .. Len(t) : t[j] = Close}
         IN  IF closes = {} THEN <<>>
             ELSE LET j == CHOOSE x \in closes : \A y \in closes : y <= x
                  IN  <<SubSeq(t, i + 1, j - 1)>>

RECURSIVE FindAll(_, _)
\* _CMD_RE.findall(text) from position pos on: the leftmost open delimiter
\* that has a close delimiter after it, up to the nearest such close
\* delimiter; the search goes on after that close delimiter.
FindAll(text, pos) ==
    LET opens == {i \in pos .. Len(text) : text[i] = Open} IN
    IF opens = {} THEN <<>>
    ELSE LET i == CHOOSE x \in opens : \A y \in opens : x <= y
             closes == {j \in (i + 1) .. Len(text) : text[j] = Close}
         IN  IF closes = {} THEN <<>>
             ELSE LET j == CHOOSE x \in closes : \A y \in closes : x <= y
                  IN  <<SubSeq(text, i + 1, j - 1)>> \o FindAll(text, j + 1)

\* Mutant of extract_commands: the matches are not stripped.
extract_commands_unstripped(t) ==
    SelectSeq(FindAll(t, 1), LAMBDA m : Strip(m) /= <<>>)

\* [m.strip() for m in _CMD_RE.findall(text) if m.strip()]
extract_commands(text) ==
    LET ms == FindAll(text, 1)
        stripped == [k \in DOMAIN ms |-> Strip(ms[k])]
    IN  SelectSeq(stripped, LAMBDA m : m /= <<>>)

\* The tokens of the texts extract_commands is called on by itself.
Alphabet == {Open, Close, "a", "b", " "}

\* The texts extract_commands is called on by itself.
Texts == UNION {[1 .. n -> Alphabet] : n \in 0 .. MaxLen}

\* extract_commands(extract_text) is called and returns.
CallExtractCommands ==
    /\ extract_pc = "idle"
    /\ extracted' = extract_commands(extract_text)
    /\ extract_pc' = "returned"
    /\ UNCHANGED extract_text
    /\ UNCHANGED ifaceVars
    /\ UNCHANGED agentVars

----------------------------------------------------------------------------
(* agent.py: run_agent. *)

\* The lines input() may return.
Inputs ==
    { <<>>, <<" ">>,
      <<"q", "u", "i", "t">>, <<"E", "x", "i", "t", " ">>, <<"B", "Y", "E">>,
      <<" ", "G", "u", "i", "d", "e", "d">>, <<"E", "X", "P", "E", "R", "T">>,
      <<" ", "h", "i">> }

\* The texts the model may reply.
Replies ==
    { <<"o", "k">>,
      <<"x", Open, "b", Close, Open, " ", Close>>,
      <<Open, "a", Close, " ", Open, " ", "b", "\n", Close, Open, "c", Close>> }

QuitWords == {<<"q", "u", "i", "t">>, <<"e", "x", "i", "t">>, <<"b", "y", "e">>}
ModeWords == {<<"g", "u", "i", "d", "e", "d">>, <<"e", "x", "p", "e", "r", "t">>}

\* user_input = input("You: ").strip()
UserInput(raw) == Strip(raw)

\* Mutant of ModeOf: the keyword is stored as typed.
ModeOfAsTyped(user_input) == user_input

\* mode = user_input.lower()
ModeOf(user_input) == Lower(user_input)

IsEmpty(raw) == UserInput(raw) = <<>>
IsQuit(raw) == ~IsEmpty(raw) /\ Lower(UserInput(raw)) \in QuitWords
\* Mutant of IsMode: the keyword is compared as typed, without lower().
IsModeAsTyped(raw) == ~IsEmpty(raw) /\ ~IsQuit(raw) /\ UserInput(raw) \in ModeWords

IsMode(raw) == ~IsEmpty(raw) /\ ~IsQuit(raw) /\ Lower(UserInput(raw)) \in ModeWords
IsConversational(raw) == ~IsEmpty(raw) /\ ~IsQuit(raw) /\ ~IsMode(raw)

\* The user turn: user_input + "\n".join(context_parts). The parts are kept
\* apart; outputs is empty when the outputs part is left out. n numbers the
\* message (a history field, not part of the text).
UserTurn(user_input, state, m, outputs, n) ==
    [role |-> "user",
     content |-> [text |-> user_input, state |-> state, mode |-> m,
                  outputs |-> outputs],
     n |-> n]

AssistantTurn(reply) == [role |-> "assistant", content |-> reply, n |-> 0]

\* Mutant of Consumed: the outputs are not cleared.
ConsumedKept(p) == p

\* pending_outputs = [] once the outputs are in the context
Consumed(p) == <<>>

\* Mutant of Rollback: the failed turn is not dropped.
RollbackNothing(h) == h

\* conversation_history.pop()
Rollback(h) == SubSeq(h, 1, Len(h) - 1)

\* Mutant of Commit: the reply is not appended.
CommitNothing(h, reply) == h

\* conversation_history.append({"role": "assistant", "content": reply})
Commit(h, reply) == Append(h, AssistantTurn(reply))

\* f"  Command {cmd!r} failed: {e}"
FailureDescriptor(cmd, e, n) == [kind |-> "failed", cmd |-> cmd, text |-> <<e>>, turn |-> n]

\* f"  {cmd!r} -> {output}"
SuccessDescriptor(cmd, output, n) == [kind |-> "ok", cmd |-> cmd, text |-> output, turn |-> n]

\* Mutant of Buffered: the descriptor is put in front of the list.
BufferedInFront(p, d) == <<d>> \o p

\* pending_outputs.append(d)
Buffered(p, d) == Append(p, d)

\* Mutant of AfterFailure: a command that raises ends the loop (break).
AfterFailureBreak(i, n) == n + 1

\* The position of the for loop after a command that raised (continue).
AfterFailure(i, n) == i + 1

\* input() raises EOFError or KeyboardInterrupt: break
InputEOF ==
    /\ pc = "input"
    /\ pc' = "closing"
    /\ event' = "eof"
    /\ UNCHANGED <<conversation_history, mode, pending_outputs, commands, idx,
                   nbuilt, ncmds, hist_before, produced, last_input, trace, close_calls>>
    /\ UNCHANGED ifaceVars
    /\ UNCHANGED extractVars

\* if not user_input: continue
InputEmpty ==
    /\ pc = "input"
    /\ \E raw \in Inputs :
        /\ IsEmpty(raw)
    /\ event' = "empty"
    /\ UNCHANGED <<pc, conversation_history, mode, pending_outputs, commands, idx,
                   nbuilt, ncmds, hist_before, produced, last_input, trace, close_calls>>
    /\ UNCHANGED ifaceVars
    /\ UNCHANGED extractVars

\* if user_input.lower() in ("quit", "exit", "bye"): break
InputQuit ==
    /\ pc = "input"
    /\ \E raw \in Inputs :
        /\ IsQuit(raw)
    /\ pc' = "closing"
    /\ event' = "quit"
    /\ UNCHANGED <<conversation_history, mode, pending_outputs, commands, idx,
                   nbuilt, ncmds, hist_before, produced, last_input, trace, close_calls>>
    /\ UNCHANGED ifaceVars
    /\ UNCHANGED extractVars

\* if user_input.lower() in ("guided", "expert"): mode = ...; continue
InputMode ==
    /\ pc = "input"
    /\ \E raw \in Inputs :
        /\ IsMode(raw)
        /\ last_input' = raw
        /\ mode' = ModeOf(UserInput(raw))
    /\ event' = "mode"
    /\ UNCHANGED <<pc, conversation_history, pending_outputs, commands, idx,
                   nbuilt, ncmds, hist_before, produced, trace, close_calls>>
    /\ UNCHANGED ifaceVars
    /\ UNCHANGED extractVars

\* Mutant of Snapshot: the report of the previous call is used again.
SnapshotCached(cached, c) == IF cached /= <<>> THEN cached ELSE StateLines(c)

\* get_session_state() in the f-string of the context: the report is made
\* from the session at each call; cached is what the previous call returned.
Snapshot(cached, c) == StateLines(c)

\* Any other input: the context is built (get_session_state() is called, the
\* pending outputs are taken) and the user turn is appended. A start() that
\* raises inside get_session_state() is caught nowhere.
InputTurn ==
    /\ pc = "input"
    /\ nbuilt < MaxTurns
    /\ CanGetSession
    /\ \E raw \in Inputs :
        /\ IsConversational(raw)
        /\ \E g \in get_session_outcomes :
            /\ _pymol' = g.handle
            /\ inst' = g.inst
            /\ content' = g.content
            /\ used' = g.handle
            /\ IF g.exc /= NoExc
               THEN /\ pc' = "crashed"
                    /\ event' = "state_error"
                    /\ UNCHANGED <<conversation_history, pending_outputs, nbuilt,
                                   hist_before, report, trace>>
               ELSE /\ report' = Snapshot(report, g.content)
                    /\ conversation_history' =
                          Append(conversation_history,
                                 UserTurn(UserInput(raw), report', mode,
                                          pending_outputs, nbuilt + 1))
                    /\ pending_outputs' =
                          IF pending_outputs /= <<>> THEN Consumed(pending_outputs)
                          ELSE pending_outputs
                    /\ nbuilt' = nbuilt + 1
                    /\ hist_before' = conversation_history
                    /\ trace' = <<>>
                    /\ pc' = "model"
                    /\ event' = "built"
    /\ UNCHANGED <<mode, commands, idx, ncmds, produced, last_input, close_calls>>
    /\ UNCHANGED <<sys_stdout, bufs, frame, ncalls>>
    /\ UNCHANGED extractVars

\* client.messages.create(...) returns: the reply is appended and its
\* commands are extracted.
ModelReply ==
    /\ pc = "model"
    /\ \E reply \in Replies :
        /\ ncmds + Len(extract_commands(reply)) <= MaxCmds
        /\ ncmds' = ncmds + Len(extract_commands(reply))
        /\ conversation_history' = Commit(conversation_history, reply)
        /\ commands' = extract_commands(reply)
    /\ idx' = 1
    /\ pc' = "exec"
    /\ event' = "reply"
    /\ UNCHANGED <<mode, pending_outputs, nbuilt, hist_before, produced,
                   last_input, trace, close_calls>>
    /\ UNCHANGED ifaceVars
    /\ UNCHANGED extractVars

\* except anthropic.APIError: conversation_history.pop(); continue
ModelAPIError ==
    /\ pc = "model"
    /\ conversation_history' = Rollback(conversation_history)
    /\ pc' = "input"
    /\ event' = "api_error"
    /\ UNCHANGED <<mode, pending_outputs, commands, idx, nbuilt, ncmds, hist_before,
                   produced, last_input, trace, close_calls>>
    /\ UNCHANGED ifaceVars
    /\ UNCHANGED extractVars

\* The call, or reading response.content[0].text, raises anything that is no
\* anthropic.APIError: no handler, the exception leaves run_agent.
ModelOtherError ==
    /\ pc = "model"
    /\ pc' = "crashed"
    /\ event' = "model_error"
    /\ UNCHANGED <<conversation_history, mode, pending_outputs, commands, idx,
                   nbuilt, ncmds, hist_before, produced, last_input, trace, close_calls>>
    /\ UNCHANGED ifaceVars
    /\ UNCHANGED extractVars

\* for cmd in commands: output = execute_command(cmd)
StartCommand ==
    /\ pc = "exec"
    /\ idx <= Len(commands)
    /\ Enter(Main, commands[idx])
    /\ pc' = "waiting"
    /\ event' = "cmd"
    /\ UNCHANGED <<conversation_history, mode, pending_outputs, commands, idx,
                   nbuilt, ncmds, hist_before, produced, last_input, trace, close_calls>>
    /\ UNCHANGED <<_pymol, inst, content, sys_stdout, bufs, report, used, ncalls>>
    /\ UNCHANGED extractVars

\* execute_command returned: if output: pending_outputs.append(...)
CommandReturned ==
    /\ pc = "waiting"
    /\ frame[Main].pc = "returned"
    /\ LET output == frame[Main].ret
           d == SuccessDescriptor(commands[idx], output, nbuilt)
       IN  /\ pending_outputs' =
                 IF output /= <<>> THEN Buffered(pending_outputs, d) ELSE pending_outputs
           /\ produced' = IF output /= <<>> THEN produced \cup {d} ELSE produced
           /\ trace' = Append(trace, [cmd |-> commands[idx],
                                      result |-> IF output /= <<>> THEN "output" ELSE "empty"])
    /\ idx' = idx + 1
    /\ pc' = "exec"
    /\ event' = "cmd_ok"
    /\ Leave(Main)
    /\ UNCHANGED <<conversation_history, mode, commands, nbuilt, ncmds, hist_before,
                   last_input, close_calls>>
    /\ UNCHANGED <<_pymol, inst, content, sys_stdout, report, used, ncalls>>
    /\ UNCHANGED extractVars

\* except Exception as e: pending_outputs.append(...); continue
CommandRaised ==
    /\ pc = "waiting"
    /\ frame[Main].pc = "raised"
    /\ LET d == FailureDescriptor(commands[idx], frame[Main].exc, nbuilt)
       IN  /\ pending_outputs' = Buffered(pending_outputs, d)
           /\ produced' = produced \cup {d}
           /\ trace' = Append(trace, [cmd |-> commands[idx], result |-> "raised"])
    /\ idx' = AfterFailure(idx, Len(commands))
    /\ pc' = "exec"
    /\ event' = "cmd_failed"
    /\ Leave(Main)
    /\ UNCHANGED <<conversation_history, mode, commands, nbuilt, ncmds, hist_before,
                   last_input, close_calls>>
    /\ UNCHANGED <<_pymol, inst, content, sys_stdout, report, used, ncalls>>
    /\ UNCHANGED extractVars

\* The for loop is through: back to input().
CommandsDone ==
    /\ pc = "exec"
    /\ idx > Len(commands)
    /\ pc' = "input"
    /\ event' = "turn_done"
    /\ UNCHANGED <<conversation_history, mode, pending_outputs, commands, idx,
                   nbuilt, ncmds, hist_before, produced, last_input, trace, close_calls>>
    /\ UNCHANGED ifaceVars
    /\ UNCHANGED extractVars

\* After the loop: close_session()
CloseSession ==
    /\ pc = "closing"
    /\ close_session
    /\ close_calls' = close_calls + 1
    /\ pc' = "closed"
    /\ event' = "closed"
    /\ UNCHANGED <<conversation_history, mode, pending_outputs, commands, idx,
                   nbuilt, ncmds, hist_before, produced, last_input, trace>>
    /\ UNCHANGED <<sys_stdout, bufs, frame, report, used, ncalls>>
    /\ UNCHANGED extractVars

----------------------------------------------------------------------------

InitIface ==
    /\ _pymol = None
    /\ inst = <<>>
    /\ content = NoObjects
    /\ sys_stdout = Console
    /\ bufs = [b \in BufIds |-> <<>>]
    /\ frame = [t \in Threads |-> IdleFrame]
    /\ report = <<>>
    /\ used = None
    /\ ncalls = 0

InitAgent ==
    /\ pc = "input"
    /\ conversation_history = <<>>
    /\ mode \in ModeWords
    /\ pending_outputs = <<>>
    /\ commands = <<>>
    /\ idx = 1
    /\ nbuilt = 0
    /\ ncmds = 0
    /\ hist_before = <<>>
    /\ produced = {}
    /\ event = "start"
    /\ last_input = <<>>
    /\ trace = <<>>
    /\ close_calls = 0

InitExtract ==
    /\ extract_text = <<>>
    /\ extracted = <<>>
    /\ extract_pc = "idle"

Init == InitIface /\ InitAgent /\ InitExtract

\* extract_commands is about to be called on any text.
InitTexts ==
    /\ InitIface
    /\ InitAgent
    /\ extract_text \in Texts
    /\ extracted = <<>>
    /\ extract_pc = "idle"

NextSeq ==
    \/ CallGetSession(1)
    \/ CallGetSessionState(1)
    \/ CallCloseSession(1)
    \/ \E t \in Threads : CallExecute(t, 1)
    \/ \E t \in Threads : ExecStep(t)
    \/ \E t \in Threads : TakeResult(t)

NextConc ==
    \/ \E t \in Threads : CallExecute(t, Cardinality(Threads))
    \/ \E t \in Threads : ExecStep(t)
    \/ \E t \in Threads : TakeResult(t)

Next ==
    \/ InputEOF
    \/ InputEmpty
    \/ InputQuit
    \/ InputMode
    \/ InputTurn
    \/ ModelReply
    \/ ModelAPIError
    \/ ModelOtherError
    \/ StartCommand
    \/ ExecStep(Main)
    \/ CommandReturned
    \/ CommandRaised
    \/ CommandsDone
    \/ CloseSession

Spec == Init /\ [][Next]_vars
SpecSeq == Init /\ [][NextSeq]_vars
SpecConc == Init /\ [][NextConc]_vars
NextExtract == CallExtractCommands

\* A started session that holds any objects and selections.
InitContents ==
    /\ _pymol = 1
    /\ inst = <<[started |-> TRUE, stops |-> 0]>>
    /\ content \in Contents
    /\ sys_stdout = Console
    /\ bufs = [b \in BufIds |-> <<>>]
    /\ frame = [t \in Threads |-> IdleFrame]
    /\ report = <<>>
    /\ used = 1
    /\ ncalls = 0
    /\ InitAgent
    /\ InitExtract

NextState ==
    \/ CallGetSessionState(1)
    \/ CallCloseSession(1)

SpecState == InitContents /\ [][NextState]_vars
SpecExtract == InitTexts /\ [][NextExtract]_vars

----------------------------------------------------------------------------
(* The claims. *)

Last(h) == h[Len(h)]
UserTurns == {i \in DOMAIN conversation_history : conversation_history[i].role = "user"}
Range(q) == {q[i] : i \in DOMAIN q}
Guided == <<"g", "u", "i", "d", "e", "d">>
Expert == <<"e", "x", "p", "e", "r", "t">>

\* C1, as stated: whenever the model call of a turn raises, the history is
\* what it was before the turn and the loop is back at input().
C1_RollbackOnAnyRaise ==
    event \in {"api_error", "model_error"}
        => pc = "input" /\ conversation_history = hist_before

\* C1, amended: when the model call raises anthropic.APIError, the history is
\* what it was before the turn and the loop is back at input(); any other
\* exception of the call leaves run_agent.
C1_RollbackOnAPIError ==
    /\ event = "api_error" => pc = "input" /\ conversation_history = hist_before
    /\ event = "model_error" => pc = "crashed"

\* C1: a model call failed with an APIError in a turn after the first.
C1_Witness ==
    event = "api_error" /\ hist_before /= <<>> /\ conversation_history = hist_before

\* The trace entries that leave a descriptor.
Visible == SelectSeq(trace, LAMBDA e : e.result /= "empty")

\* C2: every extracted command is attempted exactly once, in order, also
\* after a command that raised; a raising command leaves exactly one failure
\* descriptor, a command with output exactly one success descriptor, a
\* command without output none; after the last command the loop is back at
\* input().
C2_EveryCommandAttempted ==
    /\ (pc \in {"exec", "waiting"} \/ event = "turn_done") =>
          /\ Len(trace) = idx - 1
          /\ \A k \in DOMAIN trace : trace[k].cmd = commands[k]
          /\ Len(pending_outputs) = Len(Visible)
          /\ \A k \in DOMAIN pending_outputs :
                /\ pending_outputs[k].cmd = Visible[k].cmd
                /\ pending_outputs[k].kind =
                      IF Visible[k].result = "raised" THEN "failed" ELSE "ok"
    /\ event = "turn_done" => pc = "input" /\ Len(trace) = Len(commands)

\* C2: a reply with three commands, the second of which raised, is through.
C2_Witness ==
    /\ event = "turn_done"
    /\ pc = "input"
    /\ Len(commands) = 3
    /\ Len(trace) = 3
    /\ trace[1].result = "output"
    /\ trace[2].result = "raised"
    /\ trace[3].result = "empty"
    /\ Len(pending_outputs) = 2

\* C3: the descriptors produced while the commands of turn k ran are all in
\* the user message of turn k + 1 and in no other user message; the pending
\* outputs are empty once a context is built and hold descriptors of the
\* current turn only.
C3_PendingSingleTurn ==
    /\ \A i \in UserTurns :
          LET m == conversation_history[i] IN
          /\ \A d \in Range(m.content.outputs) : d.turn = m.n - 1
          /\ \A d \in produced : d.turn = m.n - 1 => d \in Range(m.content.outputs)
    /\ pc = "model" => pending_outputs = <<>>
    /\ \A d \in Range(pending_outputs) : d.turn = nbuilt

\* C3: the message of one turn carries outputs, the message of the next turn
\* carries none.
C3_Witness ==
    \E i, j \in UserTurns :
        /\ conversation_history[j].n = conversation_history[i].n + 1
        /\ conversation_history[i].content.outputs /= <<>>
        /\ conversation_history[j].content.outputs = <<>>

\* C4, as stated: at every model call, each descriptor produced so far is in
\* a user turn of the history the call receives.
C4_EveryOutcomeSurfaced ==
    pc = "model" =>
        \A d \in produced :
            \E i \in UserTurns : d \in Range(conversation_history[i].content.outputs)

\* C5: a mode keyword in any letter case sets the mode to the keyword, leaves
\* the history alone and goes back to input() without a model call; the user
\* message built next carries the mode then set.
C5_ModeSwitch ==
    [][ /\ event' = "mode" =>
              /\ pc = "input" /\ pc' = "input"
              /\ mode' \in ModeWords
              /\ mode' = Lower(Strip(last_input'))
              /\ conversation_history' = conversation_history
        /\ event' = "built" =>
              Last(conversation_history').content.mode = mode
       ]_vars

\* C5: a message built after a switch to expert, typed in capitals, follows
\* a message built in guided mode.
C5_Witness ==
    /\ event = "built"
    /\ Len(conversation_history) >= 2
    /\ last_input = <<"E", "X", "P", "E", "R", "T">>
    /\ mode = Expert
    /\ Last(conversation_history).content.mode = Expert
    /\ conversation_history[1].content.mode = Guided

\* C6: the reply is appended as an assistant turn when it arrives, before
\* any of its commands has started, and no step of command execution changes
\* the history.
C6_ReplyCommitted ==
    [][ /\ event' = "reply" /\ pc = "model" =>
              /\ \E r \in Replies :
                    /\ conversation_history' = Append(conversation_history, AssistantTurn(r))
                    /\ commands' = extract_commands(r)
              /\ idx' = 1
              /\ trace' = <<>>
              /\ frame'[Main].pc = "idle"
        /\ pc \in {"exec", "waiting"} => conversation_history' = conversation_history
       ]_vars

\* C6: a command of the reply has failed and the reply is the last turn of
\* the history.
C6_Witness ==
    /\ pc = "exec"
    /\ event = "cmd_failed"
    /\ Last(conversation_history).role = "assistant"
    /\ extract_commands(Last(conversation_history).content) = commands

\* C7, as stated: however run_agent stops, close_session has been called
\* exactly once.
C7_TeardownOnEveryStop ==
    pc \in {"closed", "crashed"} => close_calls = 1

\* C8: at most one instance is started and not stopped, it is the one in the
\* global, and a call made while the global is set works on that instance
\* and leaves it in the global.
C8_SingleInstance ==
    [][ /\ Cardinality(LiveSet') <= 1
        /\ LiveSet' \subseteq {_pymol'}
        /\ _pymol /= None /\ _pymol' /= None => used' = _pymol /\ _pymol' = _pymol
       ]_vars

\* C8: after a close_session, a second instance is the live one.
C8_Witness ==
    /\ Len(inst) = 2
    /\ inst[1].started /\ inst[1].stops = 1
    /\ LiveSet = {2}
    /\ _pymol = 2
    /\ used = 2

InProgress == {t \in Threads : frame[t].pc \notin {"idle", "returned", "raised"}}

\* C9: with no execute_command call in progress the output channel is the
\* console, after calls that returned and after calls that raised; a call
\* that raised hands the caller the exception of the session.
C9_StdoutRestored ==
    /\ InProgress = {} => sys_stdout = Console
    /\ \A t \in Threads :
          /\ frame[t].pc = "raised" => frame[t].exc \in {CmdError, StartError}
          /\ frame[t].pc = "returned" => frame[t].exc = NoExc

\* C9: a call has raised after an earlier call, and the console is back.
C9_Witness ==
    /\ ncalls >= 2
    /\ InProgress = {}
    /\ \E t \in Threads : frame[t].pc = "raised" /\ frame[t].exc = CmdError
    /\ sys_stdout = Console

\* C10, as stated: a call returns the text its own command printed, stripped.
C10_NoCrossContamination ==
    \A t \in Threads :
        frame[t].pc = "returned" => frame[t].ret = Strip(frame[t].emitted)

\* The positions of the delimiters of text t, and the k-th of them.
DelimPos(t) == {i \in DOMAIN t : t[i] \in {Open, Close}}
Nth(S, k) == CHOOSE x \in S : Cardinality({y \in S : y < x}) = k - 1

\* t is made of well-formed blocks that are not nested: its delimiters are
\* open, close, open, close, ... and the last one is a close delimiter.
WellFormed(t) ==
    /\ Cardinality(DelimPos(t)) % 2 = 0
    /\ \A k \in 1 .. Cardinality(DelimPos(t)) :
          t[Nth(DelimPos(t), k)] = IF k % 2 = 1 THEN Open ELSE Close

NBlocks(t) == Cardinality(DelimPos(t)) \div 2

\* The body of the k-th block of a well-formed text.
Body(t, k) == SubSeq(t, Nth(DelimPos(t), 2 * k - 1) + 1, Nth(DelimPos(t), 2 * k) - 1)

\* C11, as stated: for a text of N well-formed blocks, extract_commands
\* returns N strings, the k-th being the trimmed body of the k-th block.
C11_ExactlyNTrimmed ==
    extract_pc = "returned" /\ WellFormed(extract_text) =>
        /\ Len(extracted) = NBlocks(extract_text)
        /\ \A k \in DOMAIN extracted : extracted[k] = Strip(Body(extract_text, k))

\* C11, amended: for a text of N well-formed blocks, extract_commands
\* returns, in document order, the trimmed bodies of the blocks whose body is
\* not empty after trimming; a block with an empty or whitespace-only body
\* yields nothing.
C11_TrimmedNonEmptyBodies ==
    extract_pc = "returned" /\ WellFormed(extract_text) =>
        extracted =
            SelectSeq([k \in 1 .. NBlocks(extract_text) |-> Strip(Body(extract_text, k))],
                      LAMBDA m : m /= <<>>)

\* C11: a text of two blocks, the first with whitespace before its body and
\* the second with an empty body, has given the trimmed body of the first.
C11_Witness ==
    /\ extract_pc = "returned"
    /\ WellFormed(extract_text)
    /\ NBlocks(extract_text) = 2
    /\ extract_text = <<Open, " ", "b", Close, Open, Close>>
    /\ extracted = << <<"b">> >>

\* C12: no returned command contains a close delimiter; every returned command
\* is the trimmed text between an open delimiter and the nearest close
\* delimiter after it; and when an open delimiter has no close delimiter after
\* it, the result is that of the text before the first such open delimiter.
C12_NearestClose ==
    extract_pc = "returned" =>
        /\ \A k \in DOMAIN extracted :
              /\ Close \notin Range(extracted[k])
              /\ \E i, j \in DOMAIN extract_text :
                    /\ i < j
                    /\ extract_text[i] = Open
                    /\ extract_text[j] = Close
                    /\ \A m \in (i + 1) .. (j - 1) : extract_text[m] /= Close
                    /\ extracted[k] = Strip(SubSeq(extract_text, i + 1, j - 1))
        /\ LET unclosed == {i \in DOMAIN extract_text :
                               /\ extract_text[i] = Open
                               /\ \A j \in (i + 1) .. Len(extract_text) :
                                     extract_text[j] /= Close}
           IN  unclosed /= {} =>
                   extracted = extract_commands(
                       SubSeq(extract_text, 1,
                              (CHOOSE i \in unclosed : \A j \in unclosed : i <= j) - 1))

\* C12: a text with a block, a second close delimiter and then an unclosed
\* open delimiter with text after it has given the body of the block.
C12_Witness ==
    /\ extract_pc = "returned"
    /\ extract_text = <<Open, "a", Close, Close, Open, "b">>
    /\ extracted = << <<"a">> >>

\* C13: an execute_command call on an empty or whitespace-only string goes
\* from its first statement straight to returning the empty string, and no
\* step of that call (entering, the test, handing back the result) changes the
\* session global, the instances, the engine, the output channel or a
\* StringIO.
C13_BlankIsNoOp ==
    [][ \A t \in Threads :
          /\ frame[t].pc = "l94" /\ Strip(frame[t].cmd) = <<>> =>
                frame'[t].pc \in {"l94", "returned"} /\ frame'[t].ret = <<>>
          /\ (/\ frame'[t] /= frame[t]
              /\ \/ frame[t].pc /= "idle" /\ Strip(frame[t].cmd) = <<>>
                 \/ frame'[t].pc /= "idle" /\ Strip(frame'[t].cmd) = <<>>) =>
                /\ frame'[t].pc \in {"idle", "l94", "returned"}
                /\ UNCHANGED <<_pymol, inst, content, sys_stdout, bufs>>
       ]_vars

\* C13: a call on a whitespace-only string has returned and there is still no
\* session.
C13_Witness ==
    \E t \in Threads :
        /\ frame[t].pc = "returned"
        /\ frame[t].cmd = <<" ", "\n">>
        /\ frame[t].ret = <<>>
        /\ _pymol = None
        /\ inst = <<>>
        /\ sys_stdout = Console

\* The places of the selections header and of the selection lines in report r.
Headers(r) == {i \in DOMAIN r : r[i].kind = "Active selections:"}
SelLines(r) == {i \in DOMAIN r : r[i].kind = "selection"}

\* The selections section of report r is there exactly when c has selections:
\* the header, then one line per selection in order, at the end of the report.
SelectionsSection(r, c) ==
    IF c.selections = <<>>
    THEN Headers(r) = {} /\ SelLines(r) = {}
    ELSE /\ Headers(r) = {Len(r) - Len(c.selections)}
         /\ SelLines(r) = (Len(r) - Len(c.selections) + 1) .. Len(r)
         /\ \A k \in DOMAIN c.selections :
               /\ r[Len(r) - Len(c.selections) + k].name = c.selections[k].name
               /\ r[Len(r) - Len(c.selections) + k].n_atoms = c.selections[k].n_atoms

\* C14, as stated: a get_session_state call on a session without objects
\* returns the single line "No objects loaded.", and the selections section
\* is in the result exactly when the session has a selection.
C14_ZeroObjectsSingleLine ==
    [][ report' /= report =>
          /\ content'.objects = <<>> => report' = <<[kind |-> "No objects loaded."]>>
          /\ SelectionsSection(report', content')
       ]_vars

\* C14, amended: a get_session_state call on a session without objects
\* returns "No objects loaded." as the first line and no object line, and
\* that line is the whole result exactly when the session has no selection
\* either; the selections section is in the result exactly when the session
\* has a selection.
C14_ZeroObjectsFirstLine ==
    [][ report' /= report =>
          /\ content'.objects = <<>> =>
                /\ report'[1] = [kind |-> "No objects loaded."]
                /\ \A i \in DOMAIN report' :
                      report'[i].kind \notin {"Loaded objects:", "object"}
                /\ (report' = <<[kind |-> "No objects loaded."]>>)
                      <=> (content'.selections = <<>>)
          /\ content'.objects /= <<>> =>
                \A i \in DOMAIN report' : report'[i].kind /= "No objects loaded."
          /\ SelectionsSection(report', content')
       ]_vars

\* C14: the report of a session without objects and with two selections.
C14_Witness ==
    /\ Live(_pymol)
    /\ content.objects = <<>>
    /\ Len(content.selections) = 2
    /\ report = StateLines(content)
    /\ Len(report) = 4

\* C15: a command is submitted only when no execute_command call is in
\* progress, and it is the command of the reply that follows the ones already
\* attempted; the commands walked are those of the reply in document order;
\* a command that completes or fails leaves the descriptors already pending
\* where they are and adds at most one, its own, at the end.
C15_OneAtATimeInOrder ==
    [][ /\ pc = "exec" /\ pc' = "waiting" =>
              /\ \A t \in Threads : frame[t].pc = "idle"
              /\ \A t \in Threads \ {Main} : frame'[t].pc = "idle"
              /\ commands = extract_commands(Last(conversation_history).content)
              /\ frame'[Main].cmd = commands[Len(trace) + 1]
        /\ pc = "waiting" /\ pc' = "exec" =>
              /\ frame[Main].pc \in {"returned", "raised"}
              /\ frame'[Main].pc = "idle"
              /\ Len(trace') = Len(trace) + 1
              /\ Last(trace').cmd = frame[Main].cmd
              /\ \/ pending_outputs' = pending_outputs
                 \/ /\ Len(pending_outputs') = Len(pending_outputs) + 1
                    /\ SubSeq(pending_outputs', 1, Len(pending_outputs)) = pending_outputs
                    /\ Last(pending_outputs').cmd = frame[Main].cmd
       ]_vars

\* C15: the third command of a reply is submitted, the first two have left
\* their descriptors in the order of the reply.
C15_Witness ==
    /\ pc = "waiting"
    /\ frame[Main].pc = "l94"
    /\ frame[Main].cmd = <<"c">>
    /\ commands = << <<"a">>, <<"b">>, <<"c">> >>
    /\ Len(pending_outputs) = 2
    /\ pending_outputs[1].cmd = <<"a">>
    /\ pending_outputs[2].cmd = <<"b">>

\* C16: at a model call, the session state in the user message just built is
\* the report of what the session holds then, all changes made by the
\* commands of earlier turns included, and the session is a started one.
C16_SnapshotFresh ==
    pc = "model" =>
        /\ Live(_pymol)
        /\ Last(conversation_history).role = "user"
        /\ Last(conversation_history).content.state = StateLines(content)

\* C16: the message of the first turn says that no objects are loaded, the
\* message of a later turn shows the object and the selection that the
\* commands in between made.
C16_Witness ==
    /\ pc = "model"
    /\ Len(conversation_history) >= 3
    /\ conversation_history[1].content.state = <<[kind |-> "No objects loaded."]>>
    /\ content = [objects |-> <<ObjX>>, selections |-> <<SelS>>]
    /\ Len(Last(conversation_history).content.state) = 4
    /\ Last(conversation_history).content.state[2].name = "X"
    /\ Last(conversation_history).content.state[4].name = "s"

\* C17: a step that takes an empty input, a mode keyword or a quit keyword
\* leaves the whole interface layer alone (no session is made or queried, no
\* command runs) and does not go to the model call; on an empty input and on
\* a mode keyword the history and the pending outputs stay as they are; no
\* user turn carries an empty text or a keyword in any letter case; and the
\* message built for the next conversational input carries all outputs then
\* pending.
C17_ControlInputsInert ==
    [][ /\ pc = "input" /\ event' \in {"empty", "mode", "quit"} =>
              /\ UNCHANGED ifaceVars
              /\ pc' \in {"input", "closing"}
              /\ UNCHANGED <<commands, idx, nbuilt>>
        /\ pc = "input" /\ event' \in {"empty", "mode"} =>
              /\ pc' = "input"
              /\ UNCHANGED <<conversation_history, pending_outputs>>
        /\ \A i \in DOMAIN conversation_history' :
              conversation_history'[i].role = "user" =>
                  /\ conversation_history'[i].content.text /= <<>>
                  /\ Lower(conversation_history'[i].content.text)
                        \notin (QuitWords \cup ModeWords)
        /\ event' = "built" =>
              Last(conversation_history').content.outputs = pending_outputs
       ]_vars

\* C17: the mode was switched while outputs of the first turn were pending,
\* and the message of the second turn carries them.
C17_Witness ==
    /\ event = "built"
    /\ Len(conversation_history) = 3
    /\ conversation_history[1].content.mode = Guided
    /\ conversation_history[3].content.mode = Expert
    /\ conversation_history[3].content.outputs /= <<>>
    /\ pending_outputs = <<>>

\* C18: at input() the history has even length, at the model call it has odd
\* length and ends with the user turn just built; at both, its turns are
\* user, assistant, user, assistant, ... from the first on.
C18_HistoryAlternates ==
    /\ pc = "input" => Len(conversation_history) % 2 = 0
    /\ pc = "model" =>
          /\ Len(conversation_history) % 2 = 1
          /\ Last(conversation_history).role = "user"
          /\ Last(conversation_history).n = nbuilt
    /\ pc \in {"input", "model"} =>
          \A i \in DOMAIN conversation_history :
              conversation_history[i].role = IF i % 2 = 1 THEN "user" ELSE "assistant"

\* C18: back at input() after a model call that failed in the third turn,
\* with the two turns before it in the history.
C18_Witness ==
    /\ pc = "input"
    /\ event = "api_error"
    /\ nbuilt = 3
    /\ Len(conversation_history) = 4

\* The most recent reply in the history, and the number of the turn it
\* answered.
LastReply ==
    CHOOSE i \in DOMAIN conversation_history :
        /\ conversation_history[i].role = "assistant"
        /\ \A j \in DOMAIN conversation_history :
              conversation_history[j].role = "assistant" => j <= i
LastReplyTurn == conversation_history[LastReply - 1].n

\* C19: the pending outputs are empty at the model call; when they are not
\* empty there is a reply, and each of them names a command of the most
\* recent reply and was produced in the turn of that reply; the outputs in
\* one user message were all produced in one turn.
C19_PendingOneReply ==
    /\ pc = "model" => pending_outputs = <<>>
    /\ pending_outputs /= <<>> =>
          /\ \E i \in DOMAIN conversation_history :
                conversation_history[i].role = "assistant"
          /\ \A d \in Range(pending_outputs) :
                /\ d.turn = LastReplyTurn
                /\ d.cmd \in Range(extract_commands(conversation_history[LastReply].content))
    /\ \A i \in UserTurns :
          \A d, e \in Range(conversation_history[i].content.outputs) : d.turn = e.turn

\* C19: the outputs of the first reply went into the message of the second
\* turn, and the pending outputs now are those of the second reply.
C19_Witness ==
    /\ pc = "input"
    /\ event = "turn_done"
    /\ Len(conversation_history) = 4
    /\ conversation_history[3].content.outputs /= <<>>
    /\ \A d \in Range(conversation_history[3].content.outputs) : d.turn = 1
    /\ pending_outputs /= <<>>
    /\ \A d \in Range(pending_outputs) : d.turn = 2

\* C20, as stated: stop() has been called only on instances whose start()
\* completed, and at most once on each; a step that calls stop() leaves the
\* global empty; and a step that fills the empty global does so with a new
\* instance.
C20_StopOnlyStarted ==
    [][ /\ \A i \in DOMAIN inst' :
              inst'[i].stops > 0 => inst'[i].started /\ inst'[i].stops = 1
        /\ (\E i \in DOMAIN inst : inst'[i].stops > inst[i].stops) => _pymol' = None
        /\ _pymol = None /\ _pymol' /= None =>
              /\ Len(inst') = Len(inst) + 1
              /\ _pymol' = Len(inst')
       ]_vars

====
